---------------------------- MODULE Spec2Model ----------------------------
(***************************************************************************)
(* Model of the search pipeline of src/app.py (Juguetron API proxy):       *)
(*   search_post      - POST /search: choice of the term, or a 400         *)
(*   execute_search   - fan-out of two upstream fetches, fan-in, merge     *)
(*   parse_suggestions - normaliser of the autocomplete body               *)
(*   parse_products    - normaliser of the product-suggestions body        *)
(* and of generate_cfdi_invoice, the validation of a CFDI invoice request. *)
(*                                                                         *)
(* JSON values.  Every JSON value the normalisers look at is a record      *)
(* [k, s, n]: k is the Python type of the value, s its text when it is a   *)
(* string, n its number when it is a number (in hundredths, so 149.5 is    *)
(* 14950) or its length when it is a list or a dict whose content the code *)
(* never looks into.  k = "absent" stands for a key that is not in its     *)
(* dict.  A dict the code does look into is flattened: its own value says  *)
(* k = "dict" and its keys are further fields of the enclosing record.     *)
(* JSON true and false are left out of the values.                         *)
(*                                                                         *)
(* Environment.  Two things the source does not fix are chosen in Init:    *)
(* the pydantic major version (1 turns a number given for a str field into *)
(* its text, 2 rejects it) and the string-hash seed, which fixes the order *)
(* in which a set yields its elements.                                     *)
(***************************************************************************)
EXTENDS Integers, Sequences, FiniteSets, TLC

VARIABLES
    pc,          \* position of the execute_search coroutine
    query,       \* the argument of execute_search
    pydantic,    \* major version of the installed pydantic ("v1" or "v2")
    hashSeed,    \* the process's string-hash seed (fixes set iteration order)
    sent,        \* upstream requests handed to http_client.get, in order
    acFetch,     \* the autocomplete fetch
    prFetch,     \* the product-suggestions fetch
    completed,   \* legs in the order in which their fetch finished
    result,      \* what execute_search gave its caller
    sgIn, sgOut, \* parse_suggestions called on its own: argument, outcome
    ppIn, ppOut, \* parse_products called on its own: argument, outcome
    request,     \* JSON body of a POST /search
    earlier,     \* the call before this one: its query, how many products
    invoice,     \* the InvoiceCFDIRequest given to generate_cfdi_invoice
    invoiceOut   \* what generate_cfdi_invoice gave its caller

vars == <<pc, query, pydantic, hashSeed, sent, acFetch, prFetch, completed,
          result, sgIn, sgOut, ppIn, ppOut, request,
          earlier, invoice, invoiceOut>>

-----------------------------------------------------------------------------
(* Bounds of the model *)

MaxSearches == 11       \* longest `searches` list of an autocomplete body
MaxProducts == 3        \* longest raw product list of a products body
MaxHashSeed == 2        \* hash seeds 0..MaxHashSeed

-----------------------------------------------------------------------------
(* JSON / Python values *)

Absent  == [k |-> "absent", s |-> "", n |-> 0]
Null    == [k |-> "null", s |-> "", n |-> 0]
Str(t)  == [k |-> "str", s |-> t, n |-> 0]
Num(c)  == [k |-> "num", s |-> "", n |-> c]
ListV(len) == [k |-> "list", s |-> "", n |-> len]
DictV(len) == [k |-> "dict", s |-> "", n |-> len]

IsDict(v) == v.k = "dict"
IsList(v) == v.k = "list"
IsNum(v)  == v.k = "num"
IsStr(v)  == v.k = "str"
Has(v)    == v.k # "absent"

\* dict.get(key): None when the key is not there
Get(v) == IF Has(v) THEN v ELSE Null
\* dict.get(key, default)
GetOr(v, default) == IF Has(v) THEN v ELSE default

\* Python truth value
Truthy(v) ==
    CASE v.k = "str"  -> v.s # ""
      [] v.k = "num"  -> v.n # 0
      [] v.k = "list" -> v.n > 0
      [] v.k = "dict" -> v.n > 0
      [] OTHER        -> FALSE

\* a or b
Or(a, b) == IF Truthy(a) THEN a ELSE b

\* for x in v: does Python accept v as an iterable
Iterable(v) == v.k \in {"list", "dict", "str"}
\* set(...) accepts the value as an element
Hashable(v) == v.k \notin {"list", "dict"}

Pad2(c) == IF c < 10 THEN "0" \o ToString(c) ELSE ToString(c)

\* str(number): 5 -> "5", 149.5 -> "149.5", 0.25 -> "0.25"
NumStr(c) ==
    IF c % 100 = 0 THEN ToString(c \div 100)
    ELSE IF c % 10 = 0 THEN ToString(c \div 100) \o "." \o ToString((c % 100) \div 10)
    ELSE ToString(c \div 100) \o "." \o Pad2(c % 100)

\* str(v); the text of a non-empty list or dict is not modelled beyond its brackets
PyStr(v) ==
    CASE v.k = "str"  -> v.s
      [] v.k = "num"  -> NumStr(v.n)
      [] v.k = "null" -> "None"
      [] v.k = "list" -> IF v.n = 0 THEN "[]" ELSE "[...]"
      [] v.k = "dict" -> IF v.n = 0 THEN "{}" ELSE "{...}"
      [] OTHER        -> ""

\* f"${v:.2f} MXN" for a number v
FormatPrice(c) == "$" \o ToString(c \div 100) \o "." \o Pad2(c % 100) \o " MXN"

\* sub in s, for two strings
Contains(sub, s) ==
    \E i \in 1..(Len(s) - Len(sub) + 1) : SubSeq(s, i, i + Len(sub) - 1) = sub


\* key in v, then v[key], for a v that is no dict: does it raise.  Of a list
\* the keys are no elements; of a string they may be substrings, and then the
\* subscript raises; None and numbers are no containers
NonDictRaises(v, keys) ==
    CASE IsStr(v)  -> \E key \in keys : Contains(key, v.s)
      [] IsList(v) -> FALSE
      [] OTHER     -> TRUE

-----------------------------------------------------------------------------
(* set(...) and list(set(...)) *)

RECURSIVE Dedup(_)
\* the distinct elements of a list, each at its first occurrence
Dedup(seq) ==
    IF seq = <<>> THEN <<>>
    ELSE LET front == Dedup(SubSeq(seq, 1, Len(seq) - 1))
             last  == seq[Len(seq)]
         IN  IF \E i \in 1..Len(front) : front[i] = last THEN front
             ELSE Append(front, last)

Rotate(seq, r) ==
    IF seq = <<>> THEN <<>>
    ELSE [i \in 1..Len(seq) |-> seq[((i - 1 + r) % Len(seq)) + 1]]

\* list(seq) in place of list(set(seq)): repeated elements stay
ListOfSetKeepsRepeats(seq, seed) == Rotate(seq, seed)

\* list(set(seq)): the distinct elements, in the order the hash table yields
\* them.  That order is fixed by the process's hash seed and is no function of
\* the insertion order; the model lets each seed rotate the distinct elements.
ListOfSet(seq, seed) == Rotate(Dedup(seq), seed)

\* seq[:n]
Take(seq, n) == SubSeq(seq, 1, IF Len(seq) < n THEN Len(seq) ELSE n)

-----------------------------------------------------------------------------
(* parse_suggestions *)

\* An upstream body, flattened; what parse_suggestions reads of it:
\*   self                  the decoded JSON value
\*   data                  self["data"]
\*   autocomplete          data["autocompleteSearchSuggestions"]
\*   searches              autocomplete["searches"]; its elements, when it is
\*                         a list, are searchEntries: [self, term]
\*   acProductSuggestions  autocomplete["productSuggestions"]; its elements
\*                         are acProductEntries: [self, name, productName]

\* what a try block has done when control leaves it
Collected(list, raised) == [list |-> list, raised |-> raised]

RECURSIVE CollectSearches(_, _, _)
\* for search in autocomplete["searches"]: if "term" in search: append
CollectSearches(entries, i, acc) ==
    IF i > Len(entries) THEN Collected(acc, FALSE)
    ELSE LET search == entries[i] IN
         CASE IsDict(search.self) ->
                CollectSearches(entries, i + 1,
                    IF Has(search.term) THEN Append(acc, search.term) ELSE acc)
           [] IsList(search.self) ->          \* "term" is no element of it
                CollectSearches(entries, i + 1, acc)
           [] IsStr(search.self) ->           \* substring test, then str["term"]
                IF Contains("term", search.self.s) THEN Collected(acc, TRUE)
                ELSE CollectSearches(entries, i + 1, acc)
           [] OTHER -> Collected(acc, TRUE)   \* "term" in None / in 5

RECURSIVE CollectProductNames(_, _, _)
\* for product in autocomplete["productSuggestions"]: ...
CollectProductNames(entries, i, acc) ==
    IF i > Len(entries) THEN Collected(acc, FALSE)
    ELSE LET product == entries[i]
             name == Or(Get(product.name), GetOr(product.productName, Str("")))
         IN  CollectProductNames(entries, i + 1,
                IF /\ IsDict(product.self)
                   /\ (Has(product.name) \/ Has(product.productName))
                   /\ Truthy(name)
                THEN Append(acc, name) ELSE acc)

\* the loop over autocomplete["searches"], whatever that value is
SearchesLoop(body) ==
    CASE ~Has(body.searches)   -> Collected(<<>>, FALSE)
      [] IsList(body.searches) -> CollectSearches(body.searchEntries, 1, <<>>)
      [] Iterable(body.searches) -> Collected(<<>>, FALSE)  \* characters, keys
      [] OTHER                 -> Collected(<<>>, TRUE)

ProductNamesLoop(body, acc) ==
    CASE ~Has(body.acProductSuggestions)   -> Collected(acc, FALSE)
      [] IsList(body.acProductSuggestions) ->
            CollectProductNames(body.acProductEntries, 1, acc)
      [] Iterable(body.acProductSuggestions) -> Collected(acc, FALSE)
      [] OTHER                             -> Collected(acc, TRUE)

\* the try block of parse_suggestions: the suggestions appended when it ends
SuggestionsTry(body) ==
    IF ~IsDict(body.self)
    THEN Collected(<<>>, NonDictRaises(body.self, {"data"}))
    ELSE IF ~Has(body.data) THEN Collected(<<>>, FALSE)
    ELSE IF ~IsDict(body.data) THEN Collected(<<>>, TRUE)       \* no .get
    ELSE IF Has(body.autocomplete) /\ ~IsDict(body.autocomplete)
         THEN Collected(<<>>, NonDictRaises(body.autocomplete,
                                            {"searches", "productSuggestions"}))
    ELSE LET s == SearchesLoop(body) IN
         IF s.raised THEN s ELSE ProductNamesLoop(body, s.list)

Returned(list) == [kind |-> "list", list |-> list, exc |-> ""]
Raised(exc)    == [kind |-> "raised", list |-> <<>>, exc |-> exc]
NotCalled      == [kind |-> "none", list |-> <<>>, exc |-> ""]

\* return list(set(suggestions))[:10], after the try block
UniqueSuggestions(suggestions, seed) ==
    IF \E i \in 1..Len(suggestions) : ~Hashable(suggestions[i])
    THEN Raised("unhashable type")
    ELSE Returned(Take(ListOfSet(suggestions, seed), 10))

parse_suggestions(body, seed) ==
    UniqueSuggestions(SuggestionsTry(body).list, seed)

-----------------------------------------------------------------------------
(* parse_products: one raw product *)

\* A raw product, flattened:
\*   self                      the list element itself
\*   productId .. categories   raw_product[<key>]
\*   sellingPrice              priceRange["sellingPrice"]
\*   lowPrice, highPrice       sellingPrice[<key>]
\*   offerPrice                offer["offerPrice"]
\*   firstItem                 items[0];  images = firstItem["images"]
\*   firstImage                images[0]; imageUrl = firstImage["imageUrl"]
\*   props                     the elements of properties, when it is a list:
\*                             [self, name, values, first], first = values[0]
\*   lastCat                   categories[-1]

\* the outcome of a step that may raise
Val(v)  == [raised |-> FALSE, v |-> v]
Raise   == [raised |-> TRUE, v |-> Null]

\* f"${price_val:.2f} MXN": format code f is for numbers only
Format2f(v) == IF IsNum(v) THEN Val(Str(FormatPrice(v.n))) ELSE Raise

\* lines 399-408: price from priceRange.sellingPrice
SellingPrice(raw) ==
    IF Has(raw.priceRange) /\ IsDict(raw.priceRange) /\ Has(raw.sellingPrice)
    THEN IF IsDict(raw.sellingPrice)
         THEN Format2f(Or(Get(raw.lowPrice), GetOr(raw.highPrice, Num(0))))
         ELSE IF IsNum(raw.sellingPrice) THEN Format2f(raw.sellingPrice)
         ELSE Val(Null)
    ELSE Val(Null)

\* lines 410-415: price from offer.offerPrice when there is none yet
OfferPrice(raw, price) ==
    IF ~Truthy(price) /\ Has(raw.offer) /\ IsDict(raw.offer)
       /\ Has(raw.offerPrice) /\ IsNum(raw.offerPrice)
    THEN Format2f(raw.offerPrice)
    ELSE Val(price)

Price(raw) ==
    LET selling == SellingPrice(raw) IN
    IF selling.raised THEN Raise ELSE OfferPrice(raw, selling.v)

\* values[0]
FirstOf(values, first) ==
    CASE IsList(values) -> Val(first)
      [] IsStr(values)  -> Val(Str(SubSeq(values.s, 1, 1)))
      [] OTHER          -> Raise        \* a number, or a dict without key 0

RECURSIVE ScanProps(_, _, _, _)
\* for prop in properties: if prop.get("name") == key: values = ...;
\*                          if values: <target> = values[0]; break
ScanProps(props, i, key, current) ==
    IF i > Len(props) THEN Val(current)
    ELSE LET prop == props[i]
             values == GetOr(prop.values, ListV(0))
         IN  IF ~IsDict(prop.self) THEN Raise       \* no .get
             ELSE IF Get(prop.name) = Str(key) /\ Truthy(values)
                  THEN FirstOf(values, prop.first)
                  ELSE ScanProps(props, i + 1, key, current)

\* the loop over raw_product["properties"], whatever that value is
PropertiesLoop(raw, key, current) ==
    CASE IsList(raw.properties)   -> ScanProps(raw.props, 1, key, current)
      [] Iterable(raw.properties) ->    \* characters or keys: strings, no .get
            IF Truthy(raw.properties) THEN Raise ELSE Val(current)
      [] OTHER                    -> Raise

\* lines 418-435
ImageUrl(raw) ==
    LET fromItems ==
            IF /\ Has(raw.items) /\ IsList(raw.items) /\ Truthy(raw.items)
               /\ IsDict(raw.firstItem) /\ Has(raw.images)
               /\ IsList(raw.images) /\ raw.images.n > 0
               /\ IsDict(raw.firstImage)
            THEN Get(raw.imageUrl) ELSE Null
    IN  IF ~Truthy(fromItems) /\ Has(raw.properties)
        THEN PropertiesLoop(raw, "image_link", fromItems)
        ELSE Val(fromItems)

\* lines 438-451
ProductUrl(raw) ==
    LET link_text == Get(raw.linkText) IN
    IF Truthy(link_text)
    THEN Val(Str("https://www.juguetron.mx/" \o PyStr(link_text) \o "/p"))
    ELSE IF Has(raw.link) THEN Val(raw.link)
    ELSE IF Has(raw.properties) THEN PropertiesLoop(raw, "link", Null)
    ELSE Val(Null)

\* lines 454-461
Brand(raw) ==
    LET brand == Get(raw.brand) IN
    IF ~Truthy(brand) /\ Has(raw.properties)
    THEN PropertiesLoop(raw, "brand", brand)
    ELSE Val(brand)

RECURSIVE StripSlashes(_)
\* s.strip("/")
StripSlashes(s) ==
    IF Len(s) = 0 THEN s
    ELSE IF SubSeq(s, 1, 1) = "/" THEN StripSlashes(SubSeq(s, 2, Len(s)))
    ELSE IF SubSeq(s, Len(s), Len(s)) = "/"
         THEN StripSlashes(SubSeq(s, 1, Len(s) - 1))
    ELSE s

RECURSIVE LastSegment(_)
\* s.split("/")[-1]
LastSegment(s) ==
    IF Len(s) = 0 \/ SubSeq(s, Len(s), Len(s)) = "/" THEN ""
    ELSE LastSegment(SubSeq(s, 1, Len(s) - 1)) \o SubSeq(s, Len(s), Len(s))

\* lines 464-471
Category(raw) ==
    IF Has(raw.categories) /\ IsList(raw.categories) /\ Truthy(raw.categories)
    THEN IF ~Truthy(raw.lastCat) THEN Val(Null)
         ELSE IF IsStr(raw.lastCat)
              THEN Val(Str(LastSegment(StripSlashes(raw.lastCat.s))))
              ELSE Raise                         \* no .strip
    ELSE Val(Null)

-----------------------------------------------------------------------------
(* parse_products: the Product model and the whole function *)

\* pydantic's validation of a value for a field of type str: version 1
\* converts a number to its text, version 2 takes strings only
ValidStr(v, pyd) ==
    CASE IsStr(v)               -> Val(v)
      [] IsNum(v) /\ pyd = "v1" -> Val(Str(NumStr(v.n)))
      [] OTHER                  -> Raise

\* ... for a field of type Optional[str]
ValidOptStr(v, pyd) == IF v.k = "null" THEN Val(Null) ELSE ValidStr(v, pyd)

\* lines 46-55 and 474-483: Product(id=str(product_id), name=name, ...)
\* kw: the keyword arguments, id being str(product_id) already
Product(kw, pyd) ==
    LET fields == [id          |-> ValidStr(kw.id, pyd),
                   name        |-> ValidStr(kw.name, pyd),
                   description |-> ValidOptStr(kw.description, pyd),
                   price       |-> ValidOptStr(kw.price, pyd),
                   image_url   |-> ValidOptStr(kw.image_url, pyd),
                   product_url |-> ValidOptStr(kw.product_url, pyd),
                   brand       |-> ValidOptStr(kw.brand, pyd),
                   category    |-> ValidOptStr(kw.category, pyd)]
    IN  IF \E f \in DOMAIN fields : fields[f].raised THEN Raise
        ELSE Val([f \in DOMAIN fields |-> fields[f].v])

NoProduct == [f \in {"id", "name", "description", "price", "image_url",
                     "product_url", "brand", "category"} |-> Null]

Skipped   == [kind |-> "skipped", product |-> NoProduct]
Nameless  == [kind |-> "nameless", product |-> NoProduct]
Failed    == [kind |-> "raised", product |-> NoProduct]
Built(p)  == [kind |-> "product", product |-> p]

\* lines 395 and 473: the name, and whether the record is kept
ProductName(raw) == Or(Get(raw.productName), GetOr(raw.name, Str("")))
HasNameAlways(name) == TRUE        \* the test of line 473 left out
HasName(name) == Truthy(name)

\* lines 390-483: one turn of the loop over raw_products
ProcessProduct(raw, pyd) ==
    IF ~IsDict(raw.self) THEN Skipped
    ELSE LET product_id  == Or(Or(Get(raw.productId), Get(raw.cacheId)),
                               GetOr(raw.id, Str("")))
             name        == ProductName(raw)
             description == Or(Get(raw.description), Get(raw.shortDescription))
             price       == Price(raw)
             image_url   == ImageUrl(raw)
             product_url == ProductUrl(raw)
             brand       == Brand(raw)
             category    == Category(raw)
         IN  IF \/ price.raised \/ image_url.raised \/ product_url.raised
                \/ brand.raised \/ category.raised
             THEN Failed
             ELSE IF ~HasName(name) THEN Nameless
             ELSE LET made == Product([id          |-> Str(PyStr(product_id)),
                                       name        |-> name,
                                       price       |-> price.v,
                                       image_url   |-> image_url.v,
                                       product_url |-> product_url.v,
                                       brand       |-> brand.v,
                                       category    |-> category.v,
                                       description |-> description], pyd)
                  IN  IF made.raised THEN Failed ELSE Built(made.v)

\* What parse_products reads of an upstream body:
\*   self, data          as in parse_suggestions
\*   productSuggestions  data["productSuggestions"]
\*   psProducts          productSuggestions["products"]
\*   searchResult        data["searchResult"]
\*   srProducts          searchResult["products"]
\*   psList, psProductsList, srList, srProductsList
\*                       the elements of each of the four when it is a list

RawList(v, entries) == [v |-> v, entries |-> entries]

\* lines 371-387: where the raw product list is taken from
RawProducts(body) ==
    IF Has(body.productSuggestions)
    THEN IF IsDict(body.productSuggestions) /\ Has(body.psProducts)
         THEN RawList(body.psProducts, body.psProductsList)
         ELSE IF IsList(body.productSuggestions)
              THEN RawList(body.productSuggestions, body.psList)
              ELSE RawList(ListV(0), <<>>)
    ELSE IF Has(body.searchResult)
    THEN IF IsDict(body.searchResult) /\ Has(body.srProducts)
         THEN RawList(body.srProducts, body.srProductsList)
         ELSE IF IsList(body.searchResult)
              THEN RawList(body.searchResult, body.srList)
              ELSE RawList(ListV(0), <<>>)
    ELSE RawList(ListV(0), <<>>)

\* what parse_products returns, and the record at which it stopped (0: none)
Products(list, raisedAt) == [list |-> list, raisedAt |-> raisedAt]

\* all or nothing: an exception empties the result
OnRaiseDropsAll(acc, i) == Products(<<>>, i)

\* except Exception: the products appended so far are what is returned
OnRaise(acc, i) == Products(acc, i)

RECURSIVE ProductsLoop(_, _, _, _)
\* lines 389-483: for raw_product in raw_products
ProductsLoop(entries, i, acc, pyd) ==
    IF i > Len(entries) THEN Products(acc, 0)
    ELSE LET turn == ProcessProduct(entries[i], pyd) IN
         CASE turn.kind = "raised"  -> OnRaise(acc, i)
           [] turn.kind = "product" ->
                ProductsLoop(entries, i + 1, Append(acc, turn.product), pyd)
           [] OTHER -> ProductsLoop(entries, i + 1, acc, pyd)

\* raisedAt = -1: the exception came before the first record
parse_products(body, pyd) ==
    IF ~IsDict(body.self)
    THEN Products(<<>>, IF NonDictRaises(body.self, {"data"}) THEN -1 ELSE 0)
    ELSE IF ~Has(body.data) THEN Products(<<>>, 0)
    ELSE IF ~IsDict(body.data)
         THEN Products(<<>>,
                IF NonDictRaises(body.data, {"productSuggestions", "searchResult"})
                THEN -1 ELSE 0)
    ELSE LET raw == RawProducts(body) IN
         CASE IsList(raw.v)   -> ProductsLoop(raw.entries, 1, <<>>, pyd)
           [] Iterable(raw.v) -> Products(<<>>, 0)   \* characters, keys: skipped
           [] OTHER           -> Products(<<>>, -1)

-----------------------------------------------------------------------------
(* Upstream bodies the model feeds the normalisers *)

EmptyBody ==
    [self |-> DictV(1), data |-> DictV(1),
     autocomplete |-> Absent, searches |-> Absent, searchEntries |-> <<>>,
     acProductSuggestions |-> Absent, acProductEntries |-> <<>>,
     productSuggestions |-> Absent, psProducts |-> Absent,
     psList |-> <<>>, psProductsList |-> <<>>,
     searchResult |-> Absent, srProducts |-> Absent,
     srList |-> <<>>, srProductsList |-> <<>>]

\* bodies that are no record, or whose data is none, or whose
\* autocompleteSearchSuggestions is none
OddBodies ==
    {[EmptyBody EXCEPT !.self = v, !.data = Absent] :
        v \in {Null, Num(100), ListV(2), Str("no data"), Str("")}}
    \cup {[EmptyBody EXCEPT !.data = v] :
        v \in {Absent, Null, ListV(0), Str("searches productSuggestions")}}
    \cup {[EmptyBody EXCEPT !.autocomplete = v] :
        v \in {Null, Num(0), ListV(1), Str("searches"), Str("x")}}

Term(i) == Str("t" \o ToString(i))

SearchEntry(term) == [self |-> DictV(1), term |-> term]

\* entries of `searches` that are not {"term": <string>}
OddSearchEntries ==
    {SearchEntry(v) : v \in {Absent, Null, Num(500), DictV(1), ListV(0), Str("")}}
    \cup {[self |-> v, term |-> Absent] :
            v \in {Null, Str("term"), Str("x"), ListV(1)}}

\* n entries with the terms t1..tn, entry dup (if any) repeating t1
PlainSearches(n, dup) ==
    [i \in 1..n |-> SearchEntry(IF i = dup THEN Term(1) ELSE Term(i))]

SearchLists ==
    {PlainSearches(n, dup) : n \in 0..MaxSearches, dup \in {0, 2, MaxSearches}}
    \cup UNION {{[PlainSearches(n, dup) EXCEPT ![at] = odd] :
                    dup \in {0, n}, at \in {1, n}, odd \in OddSearchEntries} :
                n \in 1..MaxSearches}

NameEntry(name, productName) ==
    [self |-> DictV(2), name |-> name, productName |-> productName]

AcProductEntries ==
    {NameEntry(Term(1), Absent), NameEntry(Str("p1"), Str("p2")),
     NameEntry(Absent, Str("p2")), NameEntry(Str(""), Str("p1")),
     NameEntry(Absent, Absent), NameEntry(Null, DictV(1)),
     [self |-> Str("name"), name |-> Absent, productName |-> Absent]}

AcProductLists ==
    {<<>>} \cup {<<a>> : a \in AcProductEntries}
           \cup {<<a, b>> : a \in {NameEntry(Term(1), Absent),
                                   NameEntry(Str("p1"), Str("p2"))},
                            b \in AcProductEntries}

AutocompleteBodies ==
    {[EmptyBody EXCEPT !.autocomplete = DictV(2),
                       !.searches = ListV(Len(ss)), !.searchEntries = ss,
                       !.acProductSuggestions = ListV(Len(ps)),
                       !.acProductEntries = ps] :
        ss \in SearchLists, ps \in AcProductLists}
    \cup {[EmptyBody EXCEPT !.autocomplete = DictV(2), !.searches = v,
                            !.acProductSuggestions = ListV(1),
                            !.acProductEntries = <<NameEntry(Str("p1"), Absent)>>] :
            v \in {Absent, Null, Num(3), Str("term"), DictV(1)}}
    \cup {[EmptyBody EXCEPT !.autocomplete = DictV(2),
                            !.searches = ListV(2),
                            !.searchEntries = PlainSearches(2, 0),
                            !.acProductSuggestions = v] :
            v \in {Absent, Null, Num(3), Str("name"), DictV(1)}}
    \cup OddBodies

-----------------------------------------------------------------------------
(* Raw products the model feeds parse_products *)

BlankProduct ==
    [self |-> DictV(1),
     productId |-> Absent, cacheId |-> Absent, id |-> Absent,
     productName |-> Absent, name |-> Absent,
     description |-> Absent, shortDescription |-> Absent,
     priceRange |-> Absent, sellingPrice |-> Absent,
     lowPrice |-> Absent, highPrice |-> Absent,
     offer |-> Absent, offerPrice |-> Absent,
     items |-> Absent, firstItem |-> Absent, images |-> Absent,
     firstImage |-> Absent, imageUrl |-> Absent,
     properties |-> Absent, props |-> <<>>,
     linkText |-> Absent, link |-> Absent, brand |-> Absent,
     categories |-> Absent, lastCat |-> Absent]

\* a product as the upstream sends it today; i tells the products of a list apart
GoodProduct(i) ==
    [BlankProduct EXCEPT
        !.productId = Str(ToString(1000 + i)),
        !.productName = Str("LEGO " \o ToString(i)),
        !.description = Str("Set"),
        !.priceRange = DictV(2), !.sellingPrice = DictV(2),
        !.lowPrice = Num(14950), !.highPrice = Num(19900),
        !.items = ListV(1), !.firstItem = DictV(2), !.images = ListV(1),
        !.firstImage = DictV(1), !.imageUrl = Str("https://img/a.jpg"),
        !.linkText = Str("lego-" \o ToString(i)),
        !.brand = Str("LEGO"),
        !.categories = ListV(2), !.lastCat = Str("/Juguetes/Lego/")]

\* a product with a name and nothing else
Named == [BlankProduct EXCEPT !.productName = Str("P")]

NameVariants ==
    {[BlankProduct EXCEPT !.productName = pn, !.name = nm, !.id = Num(700)] :
        pn \in {Absent, Null, Str(""), Str("A"), Num(4200), ListV(1)},
        nm \in {Absent, Str(""), Str("B")}}

Prop(name, values, first) ==
    [self |-> DictV(2), name |-> name, values |-> values, first |-> first]

\* the members of priceRange and offer, for a priceRange and an offer that are records
PriceFields ==
    {[sellingPrice |-> sp, lowPrice |-> Absent, highPrice |-> Absent] :
        sp \in {Absent, Null, Str("99"), Num(0), Num(9900), ListV(1)}}
    \cup {[sellingPrice |-> DictV(2), lowPrice |-> lo, highPrice |-> hi] :
            lo \in {Absent, Null, Num(0), Num(14950), Num(5), Str("149.5")},
            hi \in {Absent, Null, Num(0), Num(19900)}}

OfferFields ==
    {[offer |-> Absent, offerPrice |-> Absent],
     [offer |-> Null, offerPrice |-> Absent],
     [offer |-> DictV(1), offerPrice |-> Absent],
     [offer |-> DictV(1), offerPrice |-> Num(8900)],
     [offer |-> DictV(1), offerPrice |-> Num(0)],
     [offer |-> DictV(1), offerPrice |-> Str("89")]}

PriceVariants ==
    {[Named EXCEPT !.priceRange = DictV(1),
                   !.sellingPrice = pf.sellingPrice,
                   !.lowPrice = pf.lowPrice, !.highPrice = pf.highPrice,
                   !.offer = of.offer, !.offerPrice = of.offerPrice] :
        pf \in PriceFields, of \in OfferFields}
    \cup {[Named EXCEPT !.priceRange = pr,
                        !.offer = of.offer, !.offerPrice = of.offerPrice] :
            pr \in {Absent, Null, Num(9900)}, of \in OfferFields}

\* the other fields: fall-backs, and values the code cannot handle
FieldVariants ==
    {[BlankProduct EXCEPT !.self = v] : v \in {Null, Str("x"), Num(100), ListV(0)}}
    \cup {[Named EXCEPT !.properties = v] :
            v \in {Null, Num(1), Str(""), Str("ab"), DictV(0), DictV(1)}}
    \cup {[Named EXCEPT !.properties = ListV(Len(ps)), !.props = ps] :
            ps \in {<<>>,
                    <<Prop(Str("brand"), ListV(1), Str("Mattel"))>>,
                    <<Prop(Str("image_link"), ListV(0), Absent),
                      Prop(Str("image_link"), ListV(2), Str("https://img/b.jpg")),
                      Prop(Str("link"), Str("/p"), Absent)>>,
                    <<Prop(Str("link"), Num(7), Absent)>>,
                    <<Prop(Str("brand"), DictV(1), Absent)>>,
                    <<Prop(Absent, Absent, Absent),
                      [self |-> Str("brand"), name |-> Absent,
                       values |-> Absent, first |-> Absent]>>}}
    \cup {[Named EXCEPT !.categories = c, !.lastCat = lc] :
            c \in {ListV(1)},
            lc \in {Str("Lego"), Str("///"), Str(""), Null, Num(500), ListV(1)}}
    \cup {[Named EXCEPT !.categories = c] : c \in {Null, ListV(0), Str("/a/")}}
    \cup {[Named EXCEPT !.brand = v] : v \in {Null, Str(""), Num(300), DictV(1)}}
    \cup {[Named EXCEPT !.linkText = v] : v \in {Null, Str(""), Num(500), ListV(0)}}
    \cup {[Named EXCEPT !.link = v] : v \in {Null, Str("https://x/p"), Num(100)}}
    \cup {[GoodProduct(9) EXCEPT !.imageUrl = v] :
            v \in {Absent, Null, Num(100), Str("")}}
    \cup {[GoodProduct(9) EXCEPT !.items = it, !.images = im] :
            it \in {Null, ListV(0), Str("x")}, im \in {Absent, ListV(0), ListV(1)}}
    \cup {[Named EXCEPT !.productId = a, !.cacheId = b, !.id = c,
                        !.description = d, !.shortDescription = Str("short")] :
            a \in {Absent, Num(0)}, b \in {Absent, Str("c1")},
            c \in {Absent, Null}, d \in {Absent, Str(""), Num(100)}}

\* the products put at a second place of a list, after a variant of FirstVariants
PairVariants ==
    NameVariants \cup FieldVariants
    \cup {v \in PriceVariants : v.offer = Absent /\ v.highPrice \in {Absent, Num(19900)}}

FirstVariants ==
    {[BlankProduct EXCEPT !.self = Null],                      \* no record
     [BlankProduct EXCEPT !.name = Str(""), !.id = Num(700)],  \* no name
     [BlankProduct EXCEPT !.name = Str("B")],
     [Named EXCEPT !.properties = Null],                       \* raises
     [Named EXCEPT !.priceRange = DictV(1), !.sellingPrice = DictV(1),
                   !.lowPrice = Str("149.5")],                 \* raises
     [Named EXCEPT !.brand = Num(300)],              \* raises under pydantic 2
     [BlankProduct EXCEPT !.categories = ListV(1), !.lastCat = Num(500)]}
                                                     \* no name, and raises

\* lists of good products with one place, or two, taken by a variant
RawProductLists ==
    UNION {{[i \in 1..n |-> GoodProduct(i)]} : n \in 0..MaxProducts}
    \cup UNION {{[[i \in 1..n |-> GoodProduct(i)] EXCEPT ![at] = v] :
                    at \in {1, n}, v \in PriceVariants \cup PairVariants} :
                n \in 1..MaxProducts}
    \cup UNION {{[[i \in 1..n |-> GoodProduct(i)] EXCEPT ![n - 1] = v, ![n] = w] :
                    v \in FirstVariants, w \in PairVariants} :
                n \in 2..MaxProducts}
    \cup UNION {{[[i \in 1..n |-> GoodProduct(i)] EXCEPT ![1] = v, ![2] = w] :
                    v \in FirstVariants, w \in FirstVariants} :
                n \in 2..MaxProducts}

\* one short list for each of the four places a body may keep its products at
ListAt(i) == <<GoodProduct(10 * i), GoodProduct(10 * i + 1)>>

\* data["productSuggestions"], with what hangs off it
PsShapes ==
    {[v |-> v, products |-> Absent] :
        v \in {Absent, Null, Str("products"), Num(5), DictV(1), ListV(2), ListV(0)}}
    \cup {[v |-> DictV(2), products |-> w] :
            w \in {ListV(2), ListV(0), Null, Num(3), Str("ab"), DictV(2)}}

ShapedBodies ==
    {[EmptyBody EXCEPT
        !.productSuggestions = ps.v, !.psProducts = ps.products,
        !.psList = IF ps.v = ListV(2) THEN ListAt(2) ELSE <<>>,
        !.psProductsList = IF ps.products = ListV(2) THEN ListAt(1) ELSE <<>>,
        !.searchResult = sr.v, !.srProducts = sr.products,
        !.srList = IF sr.v = ListV(2) THEN ListAt(4) ELSE <<>>,
        !.srProductsList = IF sr.products = ListV(2) THEN ListAt(3) ELSE <<>>] :
        ps \in PsShapes, sr \in PsShapes}

ProductBodies ==
    {[EmptyBody EXCEPT !.productSuggestions = DictV(1),
                       !.psProducts = ListV(Len(l)), !.psProductsList = l] :
        l \in RawProductLists}
    \cup ShapedBodies
    \cup OddBodies

-----------------------------------------------------------------------------
(* execute_search *)

VTEX_BASE_URL == "https://www.juguetron.mx/_v/segment/graphql/v1"
AUTOCOMPLETE_HASH ==
    "069177eb2c038ccb948b55ca406e13189adcb5addcb00c25a8400450d20e0108"
PRODUCT_SUGGESTIONS_HASH ==
    "3eca26a431d4646a8bbce2644b78d3ca734bf8b4ba46afe4269621b64b0fb67d"

\* lines 189-191: the JSON text of the variables, in base64
encode_variables(variables) == [base64 |-> [json |-> variables]]
\* what the upstream reads back from the variables of a URL
DecodedVariables(url) == url.variables.base64.json

\* the URL build_url makes, as the parameters a server decodes from it
build_url(operation_name, hash_value, variables) ==
    [base |-> VTEX_BASE_URL, workspace |-> "master", maxAge |-> "medium",
     domain |-> "store", locale |-> "es-MX",
     operationName |-> operation_name,
     sha256Hash |-> hash_value,
     variables |-> encode_variables(variables)]

\* str.strip() applied to the term: blanks at its end are taken off
RECURSIVE RStrip(_)
RStrip(t) ==
    IF Len(t) > 0 /\ SubSeq(t, Len(t), Len(t)) = " "
    THEN RStrip(SubSeq(t, 1, Len(t) - 1)) ELSE t
autocomplete_vars_stripped(q) == [fullText |-> RStrip(q)]

\* line 270
autocomplete_vars(q) == [fullText |-> q]
\* lines 277-296
product_vars(q) ==
    [fullText |-> q, productOriginVtex |-> TRUE, simulationBehavior |-> "default",
     hideUnavailableItems |-> FALSE, count |-> 12, origin |-> "autocorrect"]

\* a fetch: not yet issued, in flight, returned with a response, or raised
Unissued ==
    [st |-> "unissued", exc |-> "", status_code |-> 0, decodable |-> FALSE,
     body |-> EmptyBody]
InFlight == [Unissued EXCEPT !.st = "inflight"]
ReturnedWith(status_code, decodable, body) ==
    [st |-> "returned", exc |-> "", status_code |-> status_code,
     decodable |-> decodable, body |-> body]
RaisedWith(exc) == [Unissued EXCEPT !.st = "raised", !.exc = exc]

NoResult ==
    [kind |-> "none", status_code |-> 0, detail |-> "", query |-> "",
     suggestions |-> <<>>, products |-> <<>>, total_products |-> 0]

\* total_products taken from the count asked of the upstream (line 284)
SearchResponseCountAsked(q, suggestions, products) ==
    [kind |-> "response", status_code |-> 200, detail |-> "",
     query |-> q, suggestions |-> suggestions, products |-> products,
     total_products |-> product_vars(q).count]

\* lines 324-329
SearchResponse(q, suggestions, products) ==
    [kind |-> "response", status_code |-> 200, detail |-> "", query |-> q,
     suggestions |-> suggestions, products |-> products,
     total_products |-> Len(products)]

\* lines 331-332
HTTPException(status_code, detail) ==
    [NoResult EXCEPT !.kind = "error", !.status_code = status_code,
                     !.detail = detail]

SearchError(exc) == HTTPException(500, "Error en búsqueda: " \o exc)

\* any status below 500 taken for a success
StatusOkBelow500(response) == response.status_code < 500

\* lines 308, 314, 320: response.status_code == 200
StatusOk(response) == response.status_code = 200

\* the body decoded under the normaliser's try: no JSON gives no suggestions
LegSuggestionsDecodeInTry(response, seed) ==
    IF ~StatusOk(response) \/ ~response.decodable THEN Returned(<<>>)
    ELSE parse_suggestions(response.body, seed)

\* lines 307-310
LegSuggestions(response, seed) ==
    IF ~StatusOk(response) THEN Returned(<<>>)
    ELSE IF ~response.decodable THEN Raised("Expecting value")   \* .json()
    ELSE parse_suggestions(response.body, seed)

\* lines 313-322 (the block is there twice; the second run repeats the first)
LegProducts(response, pyd) ==
    IF ~StatusOk(response) THEN Returned(<<>>)
    ELSE IF ~response.decodable THEN Raised("Expecting value")
    ELSE Returned(parse_products(response.body, pyd).list)

\* SearchResponse.suggestions: List[str]
ValidSuggestions(list, pyd) ==
    IF \E i \in 1..Len(list) : ValidStr(list[i], pyd).raised
    THEN Raised("validation error for SearchResponse")
    ELSE Returned([i \in 1..Len(list) |-> ValidStr(list[i], pyd).v])

\* lines 306-332: from the two responses to what the caller gets
Respond(q, autocomplete_response, products_response, seed, pyd) ==
    LET suggestions == LegSuggestions(autocomplete_response, seed)
        products    == LegProducts(products_response, pyd)
        checked     == ValidSuggestions(suggestions.list, pyd)
    IN  CASE suggestions.kind = "raised" -> SearchError(suggestions.exc)
          [] products.kind = "raised"    -> SearchError(products.exc)
          [] checked.kind = "raised"     -> SearchError(checked.exc)
          [] OTHER -> SearchResponse(q, checked.list, products.list)

\* the results in the order in which the fetches ended
GatherByCompletion(ac, pr, order) ==
    IF order # <<>> /\ order[1] = "products" THEN <<pr, ac>> ELSE <<ac, pr>>

\* asyncio.gather gives the results in the order of its arguments
Gather(ac, pr, order) == <<ac, pr>>

\* gather is done when each of its awaitables has a result
BothReturned(ac, pr) == ac.st = "returned" /\ pr.st = "returned"

\* the exception gather passes on: that of the fetch that raised first
FirstRaised(ac, pr, order) ==
    LET first == CHOOSE i \in 1..Len(order) :
                    /\ (IF order[i] = "autocomplete" THEN ac ELSE pr).st = "raised"
                    /\ \A j \in 1..(i - 1) :
                          (IF order[j] = "autocomplete" THEN ac ELSE pr).st # "raised"
    IN  (IF order[first] = "autocomplete" THEN ac ELSE pr).exc

\* parse_products not called yet
NoCall == [kind |-> "none", list |-> <<>>, raisedAt |-> 0]

Queries == {"lego", "LEGO Star Wars "}
StatusCodes == {200, 404, 503}
TransportErrors == {"ConnectError", "ReadTimeout"}     \* timeout=15.0, line 186

\* bodies the upstream answers a search with
SearchBodies ==
    {EmptyBody,
     \* two terms, one of them also a product suggestion
     [EmptyBody EXCEPT !.autocomplete = DictV(2),
        !.searches = ListV(2), !.searchEntries = PlainSearches(2, 0),
        !.acProductSuggestions = ListV(2),
        !.acProductEntries = <<NameEntry(Term(1), Absent),
                               NameEntry(Str("p1"), Absent)>>],
     \* a term that is null, one that is a number
     [EmptyBody EXCEPT !.autocomplete = DictV(1), !.searches = ListV(2),
        !.searchEntries = <<SearchEntry(Term(1)), SearchEntry(Null)>>],
     [EmptyBody EXCEPT !.autocomplete = DictV(1), !.searches = ListV(2),
        !.searchEntries = <<SearchEntry(Term(1)), SearchEntry(Num(500))>>],
     \* a term that is a record
     [EmptyBody EXCEPT !.autocomplete = DictV(1), !.searches = ListV(1),
        !.searchEntries = <<SearchEntry(DictV(1))>>],
     \* two products
     [EmptyBody EXCEPT !.productSuggestions = DictV(1),
        !.psProducts = ListV(2), !.psProductsList = ListAt(1)],
     \* a product, a record that raises, a product
     [EmptyBody EXCEPT !.productSuggestions = DictV(1),
        !.psProducts = ListV(3),
        !.psProductsList = <<GoodProduct(1), [Named EXCEPT !.properties = Null],
                             GoodProduct(3)>>],
     \* suggestions and products in one body
     [EmptyBody EXCEPT !.autocomplete = DictV(1), !.searches = ListV(1),
        !.searchEntries = PlainSearches(1, 0),
        !.searchResult = ListV(2), !.srList = ListAt(4)]}

\* no POST /search body: the call came through GET /search (lines 220-234)
NoPost == [termino_busqueda |-> Absent, query |-> Absent]

\* lines 66-72: both fields are Optional[str] = None
SearchRequest(body) ==
    [termino_busqueda |-> Get(body.termino_busqueda), query |-> Get(body.query)]

\* the fields taken in the other order
query_term_query_first(req) == Or(req.query, req.termino_busqueda)

\* line 255
query_term(req) == Or(req.termino_busqueda, req.query)

\* generate_cfdi_invoice not called
NoInvoiceRequest ==
    [rfc |-> "", ticket_number |-> "", total |-> [milli |-> 0, e16 |-> 0],
     payment_method |-> ""]
NoInvoice ==
    [kind |-> "none", success |-> FALSE, message |-> "", invoice_id |-> Null,
     pdf_url |-> Null, validation_errors |-> <<>>, invoice_details |-> Null]

\* no call before this one
NoEarlier == [query |-> "", total_products |-> -1]

Init ==
    /\ pc = "start"
    /\ query \in Queries
    /\ pydantic \in {"v1", "v2"}
    /\ hashSeed \in 0..MaxHashSeed
    /\ sent = <<>>
    /\ acFetch = Unissued /\ prFetch = Unissued
    /\ completed = <<>>
    /\ result = NoResult
    /\ sgIn = EmptyBody /\ sgOut = NotCalled
    /\ ppIn = EmptyBody /\ ppOut = NoCall
    /\ request = NoPost
    /\ earlier = NoEarlier
    /\ invoice = NoInvoiceRequest /\ invoiceOut = NoInvoice

\* lines 268-304: both URLs are built, both fetches are handed to gather, and
\* the coroutine waits
IssueFetches ==
    /\ pc = "start"
    /\ sent' = <<build_url("autocompleteSearchSuggestions", AUTOCOMPLETE_HASH,
                           autocomplete_vars(query)),
                 build_url("productSuggestions", PRODUCT_SUGGESTIONS_HASH,
                           product_vars(query))>>
    /\ acFetch' = InFlight /\ prFetch' = InFlight
    /\ pc' = "gathering"
    /\ UNCHANGED <<query, pydantic, hashSeed, completed, result,
                   sgIn, sgOut, ppIn, ppOut,
                   request, earlier,
                   invoice, invoiceOut>>

\* http_client.get(autocomplete_url) ends: a response, whatever its status
AutocompleteReturns ==
    /\ acFetch.st = "inflight"
    /\ \E status_code \in StatusCodes, decodable \in BOOLEAN, body \in SearchBodies :
          /\ ~decodable => body = EmptyBody
          /\ acFetch' = ReturnedWith(status_code, decodable, body)
    /\ completed' = Append(completed, "autocomplete")
    /\ UNCHANGED <<pc, query, pydantic, hashSeed, sent, prFetch, result,
                   sgIn, sgOut, ppIn, ppOut,
                   request, earlier,
                   invoice, invoiceOut>>

\* ... or a transport error, or the 15 s deadline
AutocompleteRaises ==
    /\ acFetch.st = "inflight"
    /\ \E exc \in TransportErrors : acFetch' = RaisedWith(exc)
    /\ completed' = Append(completed, "autocomplete")
    /\ UNCHANGED <<pc, query, pydantic, hashSeed, sent, prFetch, result,
                   sgIn, sgOut, ppIn, ppOut,
                   request, earlier,
                   invoice, invoiceOut>>

ProductsReturns ==
    /\ prFetch.st = "inflight"
    /\ \E status_code \in StatusCodes, decodable \in BOOLEAN, body \in SearchBodies :
          /\ ~decodable => body = EmptyBody
          /\ prFetch' = ReturnedWith(status_code, decodable, body)
    /\ completed' = Append(completed, "products")
    /\ UNCHANGED <<pc, query, pydantic, hashSeed, sent, acFetch, result,
                   sgIn, sgOut, ppIn, ppOut,
                   request, earlier,
                   invoice, invoiceOut>>

ProductsRaises ==
    /\ prFetch.st = "inflight"
    /\ \E exc \in TransportErrors : prFetch' = RaisedWith(exc)
    /\ completed' = Append(completed, "products")
    /\ UNCHANGED <<pc, query, pydantic, hashSeed, sent, acFetch, result,
                   sgIn, sgOut, ppIn, ppOut,
                   request, earlier,
                   invoice, invoiceOut>>

\* line 301 and 331-332: gather passes the first exception on, without
\* waiting for the other fetch; the handler turns it into a 500
GatherRaises ==
    /\ pc = "gathering"
    /\ acFetch.st = "raised" \/ prFetch.st = "raised"
    /\ result' = SearchError(FirstRaised(acFetch, prFetch, completed))
    /\ pc' = "done"
    /\ UNCHANGED <<query, pydantic, hashSeed, sent, acFetch, prFetch, completed,
                   sgIn, sgOut, ppIn, ppOut,
                   request, earlier,
                   invoice, invoiceOut>>

\* lines 301-332: gather returns both responses; the rest runs without waiting
GatherReturns ==
    /\ pc = "gathering"
    /\ BothReturned(acFetch, prFetch)
    /\ LET responses == Gather(acFetch, prFetch, completed) IN
       result' = Respond(query, responses[1], responses[2], hashSeed, pydantic)
    /\ pc' = "done"
    /\ UNCHANGED <<query, pydantic, hashSeed, sent, acFetch, prFetch, completed,
                   sgIn, sgOut, ppIn, ppOut,
                   request, earlier,
                   invoice, invoiceOut>>

Next ==
    \/ IssueFetches
    \/ AutocompleteReturns
    \/ AutocompleteRaises
    \/ ProductsReturns
    \/ ProductsRaises
    \/ GatherRaises
    \/ GatherReturns

Spec == Init /\ [][Next]_vars

-----------------------------------------------------------------------------
(* execute_search called again and again by one process *)

\* what is kept of a call that has ended; -1 products stands for an error
Ended == [query |-> query,
          total_products |-> IF result.kind = "response"
                             THEN result.total_products ELSE -1]

\* lines 266-268: the next call starts with nothing but its argument; what
\* the call before it held is local to that call and gone (a fetch of it
\* that is still in flight is left to end on its own)
NewCall ==
    /\ pc = "done"
    /\ earlier' = Ended
    /\ query' \in Queries
    /\ pc' = "start"
    /\ sent' = <<>>
    /\ acFetch' = Unissued /\ prFetch' = Unissued
    /\ completed' = <<>>
    /\ result' = NoResult
    /\ UNCHANGED <<pydantic, hashSeed, sgIn, sgOut, ppIn, ppOut, request,
                   invoice, invoiceOut>>

NextCalls ==
    \/ NewCall
    \/ Next

SpecCalls == Init /\ [][NextCalls]_vars

-----------------------------------------------------------------------------
(* POST /search: search_post in front of execute_search *)

FalsyFields == {Absent, Null, Str("")}

\* bodies of POST /search: nothing to search for, termino_busqueda alone or
\* with a query beside it, query alone
PostBodies ==
    [termino_busqueda : FalsyFields, query : FalsyFields]
    \cup [termino_busqueda : {Str("lego")},
          query : {Absent, Str("LEGO Star Wars ")}]
    \cup [termino_busqueda : FalsyFields, query : {Str("LEGO Star Wars ")}]

InitPost ==
    /\ pc = "post"
    /\ request \in PostBodies
    /\ query = ""
    /\ pydantic \in {"v1", "v2"}
    /\ hashSeed \in 0..MaxHashSeed
    /\ sent = <<>>
    /\ acFetch = Unissued /\ prFetch = Unissued
    /\ completed = <<>>
    /\ result = NoResult
    /\ sgIn = EmptyBody /\ sgOut = NotCalled
    /\ ppIn = EmptyBody /\ ppOut = NoCall
    /\ earlier = NoEarlier
    /\ invoice = NoInvoiceRequest /\ invoiceOut = NoInvoice

\* lines 254-263: the 400, or the call of execute_search
search_post ==
    /\ pc = "post"
    /\ LET term == query_term(SearchRequest(request)) IN
       IF ~Truthy(term)
       THEN /\ result' = HTTPException(400,
                   "Debe proporcionar 'termino_busqueda' o 'query' en el request body")
            /\ pc' = "done"
            /\ UNCHANGED query
       ELSE /\ query' = term.s
            /\ pc' = "start"
            /\ UNCHANGED result
    /\ UNCHANGED <<pydantic, hashSeed, sent, acFetch, prFetch, completed,
                   sgIn, sgOut, ppIn, ppOut, request,
                   earlier,
                   invoice, invoiceOut>>

NextPost ==
    \/ search_post
    \/ Next

SpecPost == InitPost /\ [][NextPost]_vars

-----------------------------------------------------------------------------
(* parse_suggestions called on its own *)

InitSuggestions ==
    /\ sgIn \in AutocompleteBodies
    /\ hashSeed \in 0..MaxHashSeed
    /\ sgOut = NotCalled
    /\ pc = "idle" /\ query = "" /\ pydantic = "v1" /\ sent = <<>>
    /\ acFetch = Unissued /\ prFetch = Unissued
    /\ completed = <<>> /\ result = NoResult
    /\ ppIn = EmptyBody /\ ppOut = NoCall
    /\ request = NoPost
    /\ earlier = NoEarlier
    /\ invoice = NoInvoiceRequest /\ invoiceOut = NoInvoice

CallParseSuggestions ==
    /\ sgOut.kind = "none"
    /\ sgOut' = parse_suggestions(sgIn, hashSeed)
    /\ UNCHANGED <<pc, query, pydantic, hashSeed, sent, acFetch, prFetch,
                   completed, result, sgIn, ppIn, ppOut,
                   request, earlier,
                   invoice, invoiceOut>>

NextSuggestions == CallParseSuggestions

SpecSuggestions == InitSuggestions /\ [][NextSuggestions]_vars

-----------------------------------------------------------------------------
(* parse_products called on its own *)

Called(out) == [kind |-> "list", list |-> out.list, raisedAt |-> out.raisedAt]

InitProducts ==
    /\ ppIn \in ProductBodies
    /\ pydantic \in {"v1", "v2"}
    /\ ppOut = NoCall
    /\ pc = "idle" /\ query = "" /\ hashSeed = 0 /\ sent = <<>>
    /\ acFetch = Unissued /\ prFetch = Unissued
    /\ completed = <<>> /\ result = NoResult
    /\ sgIn = EmptyBody /\ sgOut = NotCalled
    /\ request = NoPost
    /\ earlier = NoEarlier
    /\ invoice = NoInvoiceRequest /\ invoiceOut = NoInvoice

CallParseProducts ==
    /\ ppOut.kind = "none"
    /\ ppOut' = Called(parse_products(ppIn, pydantic))
    /\ UNCHANGED <<pc, query, pydantic, hashSeed, sent, acFetch, prFetch,
                   completed, result, sgIn, sgOut, ppIn,
                   request, earlier,
                   invoice, invoiceOut>>

NextProducts == CallParseProducts

SpecProducts == InitProducts /\ [][NextProducts]_vars

-----------------------------------------------------------------------------
(* generate_cfdi_invoice.  A total is a float: milli thousandths plus e16    *)
(* times 10^16, which covers every total of up to three decimals and one    *)
(* that str() writes with an exponent.                                      *)

Digits == {"0", "1", "2", "3", "4", "5", "6", "7", "8", "9"}
LowerCase == "abcdefghijklmnopqrstuvwxyzñ"
UpperCase == "ABCDEFGHIJKLMNOPQRSTUVWXYZÑ"
Capitals == {SubSeq(UpperCase, i, i) : i \in 1..26}

\* str.upper()
RECURSIVE upper(_)
upper(t) ==
    LET c == SubSeq(t, 1, 1)
        at == {i \in 1..Len(LowerCase) : SubSeq(LowerCase, i, i) = c}
    IN  IF Len(t) = 0 THEN ""
        ELSE (IF at = {} THEN c
              ELSE LET i == CHOOSE i \in at : TRUE IN SubSeq(UpperCase, i, i))
             \o upper(SubSeq(t, 2, Len(t)))

\* str.replace(c, "") for a single character c
RECURSIVE Without(_, _)
Without(t, c) ==
    IF Len(t) = 0 THEN ""
    ELSE (IF SubSeq(t, 1, 1) = c THEN "" ELSE SubSeq(t, 1, 1))
         \o Without(SubSeq(t, 2, Len(t)), c)

startswith(t, prefix) ==
    Len(t) >= Len(prefix) /\ SubSeq(t, 1, Len(prefix)) = prefix

\* the characters from..to of t are all of one class
AllIn(t, from, to, class) == \A i \in from..to : SubSeq(t, i, i) \in class

\* the texts a pattern that ends in $ is matched against: $ stands at the
\* end, and also before a newline that ends the text
BeforeDollar(t) ==
    IF Len(t) > 0 /\ SubSeq(t, Len(t), Len(t)) = "\n"
    THEN {t, SubSeq(t, 1, Len(t) - 1)} ELSE {t}

\* line 683: ^[A-Z&Ñ]{3,4}[0-9]{6}[A-Z0-9]{3}$
RfcPattern(t) ==
    \E u \in BeforeDollar(t), k \in {3, 4} :
        /\ Len(u) = k + 9
        /\ AllIn(u, 1, k, Capitals \cup {"&", "Ñ"})
        /\ AllIn(u, k + 1, k + 6, Digits)
        /\ AllIn(u, k + 7, k + 9, Capitals \cup Digits)

\* line 696: ^V\d{8}$
PhysicalPattern(t) ==
    \E u \in BeforeDollar(t) :
        Len(u) = 9 /\ startswith(u, "V") /\ AllIn(u, 2, 9, Digits)

\* line 693: ^O401\d{5}$
O401Pattern(t) ==
    \E u \in BeforeDollar(t) :
        Len(u) = 9 /\ startswith(u, "O401") /\ AllIn(u, 5, 9, Digits)

\* line 693: ^O404\s*\d{5}$
O404Pattern(t) ==
    \E u \in BeforeDollar(t) :
        /\ Len(u) >= 9 /\ startswith(u, "O404")
        /\ AllIn(u, 5, Len(u) - 5, {" ", "\t", "\n"})
        /\ AllIn(u, Len(u) - 4, Len(u), Digits)

Float(milli) == [milli |-> milli, e16 |-> 0]

\* str(float): the shortest text that reads back as the float; a whole
\* number gets ".0", 1e16 and above get an exponent and no point
FloatStr(x) ==
    IF x.e16 # 0 THEN ToString(x.e16) \o "e+16"
    ELSE LET frac == x.milli % 1000 IN
         ToString(x.milli \div 1000) \o "." \o
         (IF frac % 100 = 0 THEN ToString(frac \div 100)
          ELSE IF frac % 10 = 0 THEN Pad2(frac \div 10)
          ELSE ToString(frac \div 100) \o Pad2(frac % 100))

\* total_str.split('.')[1], for a text with a point in it
RECURSIVE UpToPoint(_)
UpToPoint(t) ==
    IF Len(t) = 0 \/ SubSeq(t, 1, 1) = "." THEN ""
    ELSE SubSeq(t, 1, 1) \o UpToPoint(SubSeq(t, 2, Len(t)))
AfterPoint(t) ==
    LET at == Len(UpToPoint(t)) + 1 IN UpToPoint(SubSeq(t, at + 1, Len(t)))

\* line 680
rfc_clean(req) == upper(Without(Without(req.rfc, "-"), " "))
\* line 687
ticket_upper(req) == upper(req.ticket_number)
\* lines 690-691
is_online(req) ==
    startswith(ticket_upper(req), "O401") \/ startswith(ticket_upper(req), "O404")
is_physical(req) == startswith(ticket_upper(req), "V")

\* validation_errors.append(message) when the condition holds
Append1(cond, message) == IF cond THEN <<message>> ELSE <<>>

\* lines 677-718, in the order of the appends.  str() and split() of a float
\* raise nothing, so the handler of lines 717-718 is never entered.
ValidationErrors(req) ==
    LET total_str == FloatStr(req.total) IN
    Append1(Len(rfc_clean(req)) < 12,
            "RFC debe tener mínimo 12 caracteres sin incluir guiones")
    \o Append1(~RfcPattern(rfc_clean(req)),
               "RFC no tiene el formato válido del SAT")
    \o Append1(/\ is_online(req)
               /\ ~O401Pattern(ticket_upper(req))
               /\ ~O404Pattern(ticket_upper(req)),
               "Para tienda online, el ticket debe tener formato O401xxxxx ó O404xxxxx")
    \o Append1(is_physical(req) /\ ~PhysicalPattern(ticket_upper(req)),
               "Para tienda física, el ticket debe tener formato Vxxxxxxxx")
    \o Append1(~is_online(req) /\ ~is_physical(req),
               "Formato de ticket no válido. Debe ser Vxxxxxxxx (tienda física) o O401xxxxx/O404xxxxx (tienda online)")
    \o Append1(is_online(req) /\ req.total # Float(0),
               "Para tienda online, el total debe ser 0 (cero)")
    \o Append1(is_physical(req) /\ ~Contains(".", total_str),
               "Para tienda física, el total debe contener un punto (.) para incluir centavos")
    \o Append1(/\ is_physical(req)
               /\ Contains(".", total_str)
               /\ Len(AfterPoint(total_str)) > 2,
               "El total solo puede tener hasta 2 decimales para centavos")

\* lines 175-182
InvoiceCFDIResponse(kw) ==
    [kind |-> "response", success |-> kw.success, message |-> kw.message,
     invoice_id |-> kw.invoice_id, pdf_url |-> kw.pdf_url,
     validation_errors |-> kw.validation_errors,
     invoice_details |-> kw.invoice_details]

\* the handler ends with an exception instead of a response
InvoiceError(exc) == [NoInvoice EXCEPT !.kind = "error", !.message = exc]

\* line 732: the text is not an f-string of Python: the field opened after
\* "C" is never closed ("999)01-"), and D2 is no format of an int.  The
\* interpreter rejects the statement, so no invoice id is ever made.
InvoiceId == Raise

\* lines 677-763
generate_cfdi_invoice(req) ==
    LET validation_errors == ValidationErrors(req) IN
    IF validation_errors # <<>>
    THEN InvoiceCFDIResponse(
             [success |-> FALSE, message |-> "Error de validación",
              validation_errors |-> validation_errors, invoice_id |-> Null,
              pdf_url |-> Null, invoice_details |-> Null])
    ELSE IF InvoiceId.raised THEN InvoiceError("SyntaxError")
    ELSE InvoiceCFDIResponse(
             [success |-> TRUE,
              message |-> "Factura CFDI generada exitosamente para RFC "
                          \o rfc_clean(req),
              invoice_id |-> InvoiceId.v,
              pdf_url |-> Str("https://facturacionjuguetron.azurewebsites.net/api/invoices/"
                              \o InvoiceId.v.s \o ".pdf"),
              validation_errors |-> <<>>,
              invoice_details |-> DictV(13)])

\* lines 156-161
PaymentMethod ==
    {"Efectivo", "Tarjeta de Débito", "Tarjeta de Crédito",
     "Transferencia electrónica de fondos"}

Rfcs ==
    {"XAXX010101000", "xaxx-010101-000", "ABC010101AB1", "Ñ&A 010101 AB1",
     "XAXX01010100", "XAXX0101", "XAXX0101010001", "XAXX010101000\n"}
TicketNumbers ==
    {"V12345678", "v12345678", "V1234567", "V12345678\n", "O40112345",
     "O4011234", "O404 12345", "O40412345", "O40212345", "X12345678", ""}
\* 0, 150.5, 150 (a whole number), 150.05, 150.505, 1452.5, 1e16
Totals ==
    {Float(0), Float(150500), Float(150000), Float(150050), Float(150505),
     Float(1452500), [milli |-> 0, e16 |-> 1]}

InvoiceRequests ==
    [rfc : Rfcs, ticket_number : TicketNumbers, total : Totals,
     payment_method : PaymentMethod]

InitCFDI ==
    /\ invoice \in InvoiceRequests
    /\ invoiceOut = NoInvoice
    /\ pc = "idle" /\ query = "" /\ pydantic = "v1" /\ hashSeed = 0
    /\ sent = <<>>
    /\ acFetch = Unissued /\ prFetch = Unissued
    /\ completed = <<>> /\ result = NoResult
    /\ sgIn = EmptyBody /\ sgOut = NotCalled
    /\ ppIn = EmptyBody /\ ppOut = NoCall
    /\ request = NoPost
    /\ earlier = NoEarlier

CallGenerateCfdiInvoice ==
    /\ invoiceOut.kind = "none"
    /\ invoiceOut' = generate_cfdi_invoice(invoice)
    /\ UNCHANGED <<pc, query, pydantic, hashSeed, sent, acFetch, prFetch,
                   completed, result, sgIn, sgOut, ppIn, ppOut, request,
                   earlier, invoice>>

SpecCFDI == InitCFDI /\ [][CallGenerateCfdiInvoice]_vars

-----------------------------------------------------------------------------
(* Properties of execute_search, under Spec *)

\* what a leg that returned 200 with a JSON body contributes
OwnSuggestions(response) ==
    ValidSuggestions(parse_suggestions(response.body, hashSeed).list, pydantic).list
OwnProducts(response) == parse_products(response.body, pydantic).list

\* the processing of a returned leg fails: its status is 200 and its body is
\* no JSON, or its normaliser raises, or a suggestion of its is no string
AutocompleteLegFails(response) ==
    /\ response.status_code = 200
    /\ \/ ~response.decodable
       \/ parse_suggestions(response.body, hashSeed).kind = "raised"
       \/ ValidSuggestions(parse_suggestions(response.body, hashSeed).list,
                           pydantic).kind = "raised"
ProductsLegFails(response) ==
    response.status_code = 200 /\ ~response.decodable

\* C1: a transport error or timeout of one fetch empties that leg only: the
\* search returns a SearchResult with the other leg's normalised data and is
\* not reported as a failure.
C1_TransportErrorDegradesOneLeg ==
    /\ (pc = "done" /\ acFetch.st = "raised" /\ prFetch.st = "returned"
            /\ ~ProductsLegFails(prFetch))
        => /\ result.kind = "response"
           /\ result.suggestions = <<>>
           /\ result.products =
                (IF prFetch.status_code = 200 THEN OwnProducts(prFetch) ELSE <<>>)
    /\ (pc = "done" /\ prFetch.st = "raised" /\ acFetch.st = "returned"
            /\ ~AutocompleteLegFails(acFetch))
        => /\ result.kind = "response"
           /\ result.products = <<>>
           /\ result.suggestions =
                (IF acFetch.status_code = 200 THEN OwnSuggestions(acFetch) ELSE <<>>)

OneLegNot200 ==
    /\ pc = "done"
    /\ acFetch.st = "returned" /\ prFetch.st = "returned"
    /\ acFetch.status_code # 200 \/ prFetch.status_code # 200

\* a leg that is not 200 gives an empty list, the other leg what its own
\* body gives
ContributionsByStatus ==
    /\ result.suggestions =
          (IF acFetch.status_code = 200 THEN OwnSuggestions(acFetch) ELSE <<>>)
    /\ result.products =
          (IF prFetch.status_code = 200 THEN OwnProducts(prFetch) ELSE <<>>)

\* C2 as stated: when a leg's status is not 200 that leg gives an empty list,
\* the other leg's contribution is untouched and the search returns a
\* SearchResult, not an error, whatever the two statuses.
C2_Not200NeverAnError ==
    OneLegNot200 => result.kind = "response" /\ ContributionsByStatus

\* C2 as amended: when a leg's status is not 200 that leg gives an empty list
\* and the other leg's contribution is untouched; the search is an error (500)
\* exactly when the other leg, with status 200, fails in its own processing
\* (a body that is no JSON, a normaliser that raises, a suggestion that is no
\* string), and a SearchResult otherwise; with both legs not 200 it is a
\* SearchResult with both lists empty.
C2_Not200LegIsEmpty ==
    OneLegNot200 =>
        IF AutocompleteLegFails(acFetch) \/ ProductsLegFails(prFetch)
        THEN result.kind = "error" /\ result.status_code = 500
        ELSE result.kind = "response" /\ ContributionsByStatus

\* autocomplete answered 503, products 200 with products: a SearchResult
\* without suggestions and with the products
C2_Witness ==
    /\ OneLegNot200
    /\ acFetch.status_code = 503 /\ acFetch.decodable
    /\ Len(acFetch.body.searchEntries) > 0
    /\ prFetch.status_code = 200
    /\ result.kind = "response"
    /\ result.suggestions = <<>> /\ Len(result.products) = 2

\* C3: both fetches are issued before the coroutine waits for either, the
\* SearchResult is made only after both have ended, and it is the same
\* whichever ended first.
C3_FanOutFanIn ==
    /\ (acFetch.st = "unissued") = (prFetch.st = "unissued")
    /\ pc # "start" => acFetch.st # "unissued" /\ Len(sent) = 2
    /\ result.kind = "response" =>
          /\ acFetch.st = "returned" /\ prFetch.st = "returned"
          /\ Len(completed) = 2
          /\ result.query = query
          /\ ContributionsByStatus

\* the products fetch ended first, and both legs contribute
C3_Witness ==
    /\ result.kind = "response"
    /\ completed = <<"products", "autocomplete">>
    /\ result.suggestions # <<>> /\ result.products # <<>>

-----------------------------------------------------------------------------
(* Properties of parse_suggestions, under SpecSuggestions *)

NoRepeats(seq) == \A i, j \in 1..Len(seq) : i # j => seq[i] # seq[j]

\* C4: whatever the body, the list parse_suggestions returns has at most 10
\* entries and holds no string twice, even when a term is repeated in
\* `searches` or is also the name of a product suggestion.
C4_SuggestionsUniqueAtMostTen ==
    sgOut.kind = "list" => Len(sgOut.list) <= 10 /\ NoRepeats(sgOut.list)

\* a body with 11 searches, one term repeated, a product suggestion named as a
\* term, and more than 10 distinct suggestions in all
C4_Witness ==
    /\ sgOut.kind = "list"
    /\ Len(sgOut.list) = 10
    /\ Len(sgIn.searchEntries) = 11
    /\ \E i, j \in 1..Len(sgIn.searchEntries) :
          i # j /\ sgIn.searchEntries[i] = sgIn.searchEntries[j]
    /\ \E i \in 1..Len(sgIn.searchEntries), j \in 1..Len(sgIn.acProductEntries) :
          sgIn.searchEntries[i].term = sgIn.acProductEntries[j].name
    /\ Len(Dedup(SuggestionsTry(sgIn).list)) > 10

\* C5: no failure inside a normaliser propagates: whatever the body,
\* parse_suggestions and parse_products return a list and do not raise.
\* (parse_products is total in the model as in the code: its return statement
\* follows a try block that holds everything else.)
C5_NormalisersNeverRaise == sgOut.kind # "raised"

-----------------------------------------------------------------------------
(* Properties of parse_products, under SpecProducts *)

UsedEntries == RawProducts(ppIn).entries

\* every record of the list was emitted: product i comes from record i
AllEmitted ==
    /\ ppOut.kind = "list"
    /\ IsDict(ppIn.self) /\ IsDict(ppIn.data)
    /\ Len(ppOut.list) = Len(UsedEntries)

\* the first structurally valid of the four places, as the claim orders them
ClaimedCandidate(body) ==
    CASE IsDict(body.productSuggestions) /\ IsList(body.psProducts) -> body.psProductsList
      [] IsList(body.productSuggestions) -> body.psList
      [] IsDict(body.searchResult) /\ IsList(body.srProducts) -> body.srProductsList
      [] IsList(body.searchResult) -> body.srList
      [] OTHER -> <<>>

\* C6: the raw product list is the first structurally valid one of
\* data.productSuggestions.products, data.productSuggestions (a list),
\* data.searchResult.products, data.searchResult (a list); a later one is used
\* whenever every earlier one is absent or invalid.
C6_FirstValidCandidateWins ==
    (ppOut.kind = "list" /\ IsDict(ppIn.self) /\ IsDict(ppIn.data))
        => ppOut.list = ProductsLoop(ClaimedCandidate(ppIn), 1, <<>>, pydantic).list

\* no price candidate resolves, in the claim's words
NoPriceCandidate(raw) ==
    /\ ~(IsDict(raw.priceRange) /\ IsDict(raw.sellingPrice)
            /\ (Has(raw.lowPrice) \/ Has(raw.highPrice)))
    /\ ~(IsDict(raw.priceRange) /\ IsNum(raw.sellingPrice))
    /\ ~(IsDict(raw.offer) /\ IsNum(raw.offerPrice))

\* C7: a raw product none of whose price candidates resolves is emitted with
\* an absent price, never with "$0.00 MXN".
C7_NoCandidateNoPrice ==
    AllEmitted =>
        \A i \in 1..Len(UsedEntries) :
            NoPriceCandidate(UsedEntries[i]) => ppOut.list[i].price = Null

\* the price the claim's candidate order gives a record (Null: none)
ClaimedPrice(raw) ==
    CASE IsDict(raw.priceRange) /\ IsDict(raw.sellingPrice) /\ Has(raw.lowPrice)
            -> Str(FormatPrice(raw.lowPrice.n))
      [] IsDict(raw.priceRange) /\ IsDict(raw.sellingPrice) /\ Has(raw.highPrice)
            -> Str(FormatPrice(raw.highPrice.n))
      [] IsDict(raw.priceRange) /\ IsNum(raw.sellingPrice)
            -> Str(FormatPrice(raw.sellingPrice.n))
      [] IsDict(raw.offer) /\ IsNum(raw.offerPrice)
            -> Str(FormatPrice(raw.offerPrice.n))
      [] OTHER -> Null

NumOrAbsent(v) == IsNum(v) \/ ~Has(v)

\* priceRange.sellingPrice yields a value, in the claim's words
SellingPriceYields(raw) ==
    /\ IsDict(raw.priceRange)
    /\ \/ IsNum(raw.sellingPrice)
       \/ /\ IsDict(raw.sellingPrice)
          /\ Has(raw.lowPrice) \/ Has(raw.highPrice)
          /\ NumOrAbsent(raw.lowPrice) /\ NumOrAbsent(raw.highPrice)

\* C8: with sellingPrice a record the price is that of lowPrice whenever
\* lowPrice is present (0 included) and that of highPrice only when lowPrice is
\* absent; a sellingPrice that is a number is used itself; offer.offerPrice is
\* used only when sellingPrice yields nothing.
C8_PriceCandidateOrder ==
    AllEmitted =>
        \A i \in 1..Len(UsedEntries) :
            LET raw == UsedEntries[i] IN
            SellingPriceYields(raw) => ppOut.list[i].price = ClaimedPrice(raw)

\* the records before the one that raised (all of them when none did)
Processed ==
    SubSeq(UsedEntries, 1,
           IF ppOut.raisedAt = 0 THEN Len(UsedEntries)
           ELSE IF ppOut.raisedAt < 0 THEN 0 ELSE ppOut.raisedAt - 1)

\* a record with a name (productName, else name) that is not empty
NamedRecord(raw) ==
    IsDict(raw.self) /\ Truthy(Or(Get(raw.productName), GetOr(raw.name, Str(""))))

NameText(raw) == PyStr(Or(Get(raw.productName), GetOr(raw.name, Str(""))))

\* C9: every product returned has a non-empty name; a record without one is
\* left out, not given a default, and every record with one that precedes a
\* failure is in the result, in upstream order.
C9_NamesNeverEmpty ==
    ppOut.kind = "list" =>
        /\ \A j \in 1..Len(ppOut.list) :
              IsStr(ppOut.list[j].name) /\ ppOut.list[j].name.s # ""
        /\ LET named == SelectSeq(Processed, NamedRecord) IN
           /\ Len(ppOut.list) = Len(named)
           /\ \A j \in 1..Len(named) : ppOut.list[j].name.s = NameText(named[j])

\* a nameless record is dropped between two that are kept
C9_Witness ==
    /\ ppOut.kind = "list" /\ IsDict(ppIn.data)
    /\ Len(UsedEntries) = 3 /\ Len(ppOut.list) = 2
    /\ IsDict(UsedEntries[2].self) /\ ~NamedRecord(UsedEntries[2])
    /\ ppOut.raisedAt = 0

\* C10: when record k raises, the result is exactly the products of the
\* records 1..k-1, in upstream order, and holds none of record k or later.
C10_PartialResultOnFailure ==
    (ppOut.kind = "list" /\ ppOut.raisedAt > 0) =>
        LET before == ProductsLoop(Processed, 1, <<>>, pydantic) IN
        /\ before.raisedAt = 0
        /\ ppOut.list = before.list
        /\ Len(ppOut.list) <= ppOut.raisedAt - 1

\* record 2 of 3 raises: product 1 is returned, record 3 (a good one) is not
C10_Witness ==
    /\ ppOut.kind = "list" /\ ppOut.raisedAt = 2
    /\ Len(UsedEntries) = 3 /\ Len(ppOut.list) = 1
    /\ ProcessProduct(UsedEntries[1], pydantic).kind = "product"
    /\ ProcessProduct(UsedEntries[3], pydantic).kind = "product"


\* C11: every SearchResult execute_search returns carries the caller's query
\* string as it was given and a total_products equal to the length of its
\* products list, whatever the two legs brought.
C11_EchoAndCount ==
    result.kind = "response" =>
        /\ result.query = query
        /\ result.total_products = Len(result.products)

\* a query with capitals and a trailing blank; the autocomplete leg is not
\* 200 and the products leg lost two of its three records
C11_Witness ==
    /\ result.kind = "response"
    /\ query = "LEGO Star Wars "
    /\ acFetch.status_code = 404
    /\ prFetch.status_code = 200 /\ prFetch.body.psProducts = ListV(3)
    /\ Len(result.products) = 1
    /\ result.total_products = 1


\* a fetch that returned 200 with a body that is no JSON
NotJson(fetch) ==
    fetch.st = "returned" /\ fetch.status_code = 200 /\ ~fetch.decodable

\* C15: when a leg's response is 200 with a body that cannot be decoded as
\* JSON, execute_search as a whole ends with the 500 that carries the
\* exception's message and gives no SearchResult, partial or not, even when
\* the other leg succeeded; the decode is not under the normalisers' own
\* exception handling, so nothing turns it into an empty list.
C15_UndecodableBodyFailsSearch ==
    pc = "done" /\ (NotJson(acFetch) \/ NotJson(prFetch)) =>
        /\ result.kind = "error" /\ result.status_code = 500
        /\ result.suggestions = <<>> /\ result.products = <<>>
        /\ Len(result.detail) > Len("Error en búsqueda: ")
        /\ SubSeq(result.detail, 1, Len("Error en búsqueda: "))
              = "Error en búsqueda: "
        /\ BothReturned(acFetch, prFetch) /\ NotJson(acFetch) =>
              result.detail = "Error en búsqueda: Expecting value"

\* the autocomplete body is no JSON while the products leg is 200 with two
\* products in its body: a 500 all the same
C15_Witness ==
    /\ pc = "done"
    /\ NotJson(acFetch)
    /\ prFetch.st = "returned" /\ prFetch.status_code = 200
    /\ prFetch.decodable /\ Len(OwnProducts(prFetch)) = 2
    /\ result.kind = "error" /\ result.status_code = 500

-----------------------------------------------------------------------------
(* Properties of search_post, under SpecPost *)

\* a field of the body that is a string with something in it
NonEmpty(v) == v.k = "str" /\ v.s # ""

\* the term the claim has the search run with
ClaimedTerm ==
    IF NonEmpty(request.termino_busqueda) THEN request.termino_busqueda.s
    ELSE request.query.s

\* C12: a POST /search body with neither a non-empty termino_busqueda nor a
\* non-empty query is answered with a 400 and no upstream fetch is ever
\* issued for it; any other body makes the search run with termino_busqueda
\* when that is non-empty, and with query only when it is missing or empty.
C12_PostTermOrBadRequest ==
    pc # "post" =>
        IF ~NonEmpty(request.termino_busqueda) /\ ~NonEmpty(request.query)
        THEN /\ result.kind = "error" /\ result.status_code = 400
             /\ sent = <<>>
             /\ acFetch.st = "unissued" /\ prFetch.st = "unissued"
        ELSE /\ result.status_code # 400
             /\ query = ClaimedTerm
             /\ pc # "start" =>
                   /\ Len(sent) = 2
                   /\ \A i \in 1..2 : DecodedVariables(sent[i]).fullText = ClaimedTerm
             /\ result.kind = "response" => result.query = ClaimedTerm

\* termino_busqueda is there but empty, and the search ran with query
C12_Witness ==
    /\ request.termino_busqueda = Str("")
    /\ request.query = Str("LEGO Star Wars ")
    /\ result.kind = "response"
    /\ result.query = "LEGO Star Wars "
    /\ Len(sent) = 2


-----------------------------------------------------------------------------
(* Properties of successive execute_search calls, under SpecCalls *)

\* C13: a call of execute_search hands exactly two requests to the upstream,
\* the first autocompleteSearchSuggestions with AUTOCOMPLETE_HASH and the
\* second productSuggestions with PRODUCT_SUGGESTIONS_HASH, both with the
\* call's own query term, unchanged, as fullText; no further request follows
\* a fetch that raised or a status that is not 200, and what the call
\* answers is made of the responses to its own two requests, not of what an
\* earlier call got.
C13_TwoFetchesPerCall ==
    /\ pc = "start" => sent = <<>>
    /\ pc \in {"gathering", "done"} =>
          /\ Len(sent) = 2
          /\ sent[1].operationName = "autocompleteSearchSuggestions"
          /\ sent[1].sha256Hash = AUTOCOMPLETE_HASH
          /\ sent[2].operationName = "productSuggestions"
          /\ sent[2].sha256Hash = PRODUCT_SUGGESTIONS_HASH
          /\ \A i \in 1..2 : /\ sent[i].base = VTEX_BASE_URL
                              /\ DecodedVariables(sent[i]).fullText = query
    /\ result.kind = "response" =>
          /\ acFetch.st = "returned" /\ prFetch.st = "returned"
          /\ result.query = query
          /\ ContributionsByStatus

\* the same term asked twice: the first call got two products, the second
\* call's products leg is 404 and its answer has none, with two requests sent
C13_Witness ==
    /\ earlier.query = "LEGO Star Wars " /\ earlier.total_products = 2
    /\ query = earlier.query
    /\ prFetch.st = "returned" /\ prFetch.status_code = 404
    /\ result.kind = "response" /\ result.total_products = 0
    /\ Len(sent) = 2


-----------------------------------------------------------------------------
(* Properties of generate_cfdi_invoice, under SpecCFDI *)

\* the rules as the claim lists them, on the cleaned RFC and the ticket in
\* capitals: RFC length and pattern, ticket format by kind of store, an
\* online total that is not 0, the format of a physical total
Online(req) == is_online(req)
Physical(req) == is_physical(req)
TotalText(req) == FloatStr(req.total)
SomeRuleFails(req) ==
    \/ Len(rfc_clean(req)) < 12
    \/ ~RfcPattern(rfc_clean(req))
    \/ (~Online(req) /\ ~Physical(req))
    \/ (Physical(req) /\ ~PhysicalPattern(ticket_upper(req)))
    \/ (/\ Online(req)
        /\ ~O401Pattern(ticket_upper(req))
        /\ ~O404Pattern(ticket_upper(req)))
    \/ (Online(req) /\ req.total # Float(0))
    \/ (Physical(req) /\ ~Contains(".", TotalText(req)))
    \/ (Physical(req) /\ Len(AfterPoint(TotalText(req))) > 2)

Refused(out) ==
    /\ out.kind = "response" /\ ~out.success
    /\ out.validation_errors # <<>>
    /\ out.invoice_id = Null /\ out.pdf_url = Null
    /\ out.invoice_details = Null
Invoiced(out) ==
    /\ out.kind = "response" /\ out.success
    /\ out.validation_errors = <<>>
    /\ IsStr(out.invoice_id) /\ IsStr(out.pdf_url)
    /\ IsDict(out.invoice_details)

\* C14: generate_cfdi_invoice ends in one of two ways: when a rule fails,
\* success = false with a non-empty validation_errors and no invoice_id,
\* pdf_url or invoice_details; when, and only when, no rule fails,
\* success = true with an empty validation_errors and an invoice.
C14_RefusedOrInvoiced ==
    invoiceOut.kind # "none" =>
        IF SomeRuleFails(invoice) THEN Refused(invoiceOut)
        ELSE Invoiced(invoiceOut)

\* the part of C14 about requests that break a rule
C14_RuleFailureIsRefused ==
    invoiceOut.kind # "none" /\ SomeRuleFails(invoice) => Refused(invoiceOut)

=============================================================================
